---- MODULE Spec2Model ----
(***************************************************************************)
(* The result database of AutoDSE (autodse/database.py): the base class    *)
(* Database with its two derived indices (best_cache, code_hash_map) and   *)
(* the two adapters RedisDatabase and PickleDatabase.                      *)
(*                                                                         *)
(* Spec      one caller; every method of the store is one atomic action.   *)
(* ConcSpec  several threads inside add_code_hash, one step per statement. *)
(***************************************************************************)
EXTENDS Integers, Sequences, FiniteSets, TLC

(***************************************************************************)
(* Bounds of the model.                                                    *)
(***************************************************************************)
\* the caller makes at most MaxCalls calls on the object
MaxCalls == 3
\* time() returns a value of 0..MaxTime
MaxTime == 1
\* batch_commit takes lists of at most MaxBatch pairs
MaxBatch == 2

(***************************************************************************)
(* Python values.  Every value is a record of the same shape, so that any  *)
(* two of them can be compared.  The fields are the ones database.py       *)
(* reads: the class (isinstance), quality, ret_code, valid, code_hash and  *)
(* the key gen_key_from_design_point gives for result.point.               *)
(***************************************************************************)
Keys == {"p1", "p2"}
Hashes == {"abc"}
NoKey == "None"
NoHash == "None"

PyValue(kind, quality, ret_code, valid, code_hash, point) ==
    [kind |-> kind, quality |-> quality, ret_code |-> ret_code,
     valid |-> valid, code_hash |-> code_hash, point |-> point]

\* the Python object None
PyNone == PyValue("NoneType", 0, "PASS", FALSE, NoHash, NoKey)
\* the Python object True, a value that is not a Result
PyTrue == PyValue("bool", 1, "PASS", FALSE, NoHash, NoKey)

HLS1 == PyValue("HLSResult", 3, "PASS", TRUE, NoHash, "p1")
Merlin1 == PyValue("MerlinResult", 5, "PASS", TRUE, "abc", "p1")
Merlin2 == PyValue("MerlinResult", 3, "PASS", TRUE, "abc", "p2")
MerlinDup == PyValue("MerlinResult", 3, "DUPLICATED", TRUE, "abc", "p2")

\* the Python object False, which PickleDB's get returns for a missing key
PyFalse == PyValue("bool", 0, "PASS", FALSE, NoHash, NoKey)

\* bytes in the dump file that pickle.loads cannot turn into an object:
\* a pickle of an unsupported protocol (pickle.loads raises ValueError) and
\* a truncated pickle (pickle.loads raises pickle.UnpicklingError)
BadProtocol == PyValue("BadProtocol", 0, "PASS", FALSE, NoHash, NoKey)
Truncated == PyValue("Truncated", 0, "PASS", FALSE, NoHash, NoKey)

\* what a caller commits
Values == {HLS1, Merlin1, Merlin2, MerlinDup, PyTrue}

\* isinstance(v, Result): HLSResult and MerlinResult derive from Result
IsResult(v) == v.kind \in {"Result", "HLSResult", "MerlinResult"}
IsHLSResult(v) == v.kind = "HLSResult"
IsMerlinResult(v) == v.kind = "MerlinResult"
IsBool(v) == v.kind = "bool"

(***************************************************************************)
(* Serialized forms.  A Python value in memory or in a backend is          *)
(* [v, json, pickled]: the object v, wrapped json times by                 *)
(* jsonpickle.encode (json > 0 is a str) and, when pickled, turned into    *)
(* bytes by pickle.dumps.                                                  *)
(***************************************************************************)
Obj(v) == [v |-> v, json |-> 0, pickled |-> FALSE]
None == Obj(PyNone)

pickle_dumps(x) == [x EXCEPT !.pickled = TRUE]
pickle_loads(x) == [x EXCEPT !.pickled = FALSE]
\* the exception pickle.loads(x) raises, "none" when it returns
pickle_loads_error(x) ==
    IF x.v = BadProtocol THEN "ValueError"
    ELSE IF x.v = Truncated THEN "UnpicklingError"
    ELSE "none"
jsonpickle_encode(x) == [x EXCEPT !.json = @ + 1]
\* only a str can be decoded
jsonpickle_decodable(x) == x.json > 0 /\ ~x.pickled
jsonpickle_decode(x) == [x EXCEPT !.json = @ - 1]

\* isinstance(x, bool) of a stored value: the object itself, not a str of it
IsBoolObj(x) == x.json = 0 /\ ~x.pickled /\ IsBool(x.v)
IsResultObj(x) == x.json = 0 /\ ~x.pickled /\ IsResult(x.v)

(***************************************************************************)
(* A key-value store that keeps insertion order (a dict, a Redis hash):    *)
(* a sequence of [key, val] without repeated keys.                         *)
(***************************************************************************)
KeysOf(db) == [i \in 1..Len(db) |-> db[i].key]
HasKey(db, k) == \E i \in 1..Len(db) : db[i].key = k
IndexOf(db, k) == CHOOSE i \in 1..Len(db) : db[i].key = k
Get(db, k) == db[IndexOf(db, k)].val
\* a store that keeps the first value written under a key
Set_keep(db, k, x) ==
    IF HasKey(db, k) THEN db
    ELSE Append(db, [key |-> k, val |-> x])

Set(db, k, x) ==
    IF HasKey(db, k)
    THEN [db EXCEPT ![IndexOf(db, k)] = [key |-> k, val |-> x]]
    ELSE Append(db, [key |-> k, val |-> x])

RECURSIVE SetAll(_, _)
SetAll(db, pairs) ==
    IF pairs = <<>> THEN db
    ELSE SetAll(Set(db, Head(pairs).key, Head(pairs).val), Tail(pairs))


(***************************************************************************)
(* best_cache: queue.PriorityQueue, a binary heap (heapq) of the tuples    *)
(* (quality, timestamp, result).  An entry also carries seq, its insertion *)
(* number (not part of the tuple, never compared), and oid, the identity   *)
(* of the result object: 0 for the object a caller passed to commit, seq   *)
(* for the fresh object a query deserialized.                              *)
(***************************************************************************)
Times == 0..MaxTime

Entry(result, ts, seq, oid) ==
    [quality |-> result.quality, ts |-> ts, result |-> result, seq |-> seq, oid |-> oid]

SameObject(a, b) == a.result = b.result /\ a.oid = b.oid

\* a < b on the tuples: the first differing position decides; results
\* define neither __eq__ nor __lt__, so two distinct result objects
\* cannot be ordered (TypeError).
TupleLt(a, b) ==
    IF a.quality # b.quality THEN IF a.quality < b.quality THEN "T" ELSE "F"
    ELSE IF a.ts # b.ts THEN IF a.ts < b.ts THEN "T" ELSE "F"
    ELSE IF SameObject(a, b) THEN "F"
    ELSE "E"

Swap(h, i, j) == [h EXCEPT ![i] = h[j], ![j] = h[i]]

\* heapq's siftdown: the entry at pos moves up while it is less than its parent
RECURSIVE SiftDown(_, _, _)
SiftDown(h, startpos, pos) ==
    IF pos <= startpos THEN [heap |-> h, err |-> FALSE]
    ELSE LET parentpos == pos \div 2
             c == TupleLt(h[pos], h[parentpos])
         IN  IF c = "E" THEN [heap |-> h, err |-> TRUE]
             ELSE IF c = "F" THEN [heap |-> h, err |-> FALSE]
             ELSE SiftDown(Swap(h, pos, parentpos), startpos, parentpos)

\* heapq's siftup: the entry at pos moves down to a leaf, then sifts back
RECURSIVE SiftUp(_, _, _)
SiftUp(h, startpos, pos) ==
    IF 2 * pos > Len(h) THEN SiftDown(h, startpos, pos)
    ELSE LET left == 2 * pos
             c == IF left + 1 <= Len(h) THEN TupleLt(h[left], h[left + 1]) ELSE "T"
             childpos == IF c = "T" THEN left ELSE left + 1
         IN  IF c = "E" THEN [heap |-> h, err |-> TRUE]
             ELSE SiftUp(Swap(h, pos, childpos), startpos, childpos)

\* a put that loses an insert: the item takes the place of the last one
heappush_lossy(h, e) ==
    IF h = <<>> THEN SiftDown(<<e>>, 1, 1)
    ELSE SiftDown([h EXCEPT ![Len(h)] = e], 1, Len(h))

\* PriorityQueue.put(item): heappush.  The item is appended before it is
\* sifted, so it stays in the list when a comparison raises.
heappush(h, e) == SiftDown(Append(h, e), 1, Len(h) + 1)

\* PriorityQueue.get(): heappop of a non-empty heap
heappop(h) ==
    LET last == h[Len(h)]
        rest == SubSeq(h, 1, Len(h) - 1)
    IN  IF rest = <<>> THEN [item |-> last, heap |-> <<>>, err |-> FALSE]
        ELSE LET s == SiftUp([rest EXCEPT ![1] = last], 1, 1)
             IN  [item |-> h[1], heap |-> s.heap, err |-> s.err]

\* the entries a consumer gets by popping best_cache until it is empty
\* (or until a pop raises)
RECURSIVE Drain(_)
Drain(h) ==
    IF h = <<>> THEN [out |-> <<>>, err |-> FALSE]
    ELSE LET p == heappop(h)
         IN  IF p.err THEN [out |-> <<>>, err |-> TRUE]
             ELSE LET d == Drain(p.heap)
                  IN  [out |-> <<p.item>> \o d.out, err |-> d.err]

(***************************************************************************)
(* The state of one Database object.                                       *)
(***************************************************************************)
VARIABLES
    backend,        \* "Redis" or "Pickle": the class of the object
    database,       \* self.database: the Redis hash db_id, or the PickleDB
    file,           \* the file at db_file_path: [exists, data]
    best_cache,     \* self.best_cache, the heap of the PriorityQueue
    code_hash_map,  \* self.code_hash_map
    status,         \* "running", "exit1" (sys.exit(1)) or "raised" (an exception left the call)
    loaded,         \* whether a load() has returned
    last,           \* the last call of the caller and what it returned
    ncalls,         \* the number of calls made so far
    threads,        \* the concurrent specifications: each thread's position in its call
    lock            \* PickleDatabase.lock: the thread that holds it, or "free"

vars == <<backend, database, file, best_cache, code_hash_map, status, loaded, last, ncalls, threads, lock>>

\* the object as a record, for the operators below
St == [backend |-> backend, database |-> database, file |-> file,
       best_cache |-> best_cache, code_hash_map |-> code_hash_map, status |-> status]

(***************************************************************************)
(* Database: the derived indices.                                          *)
(***************************************************************************)
\* add_code_hash without the test of line 94: the key is always stored
add_code_hash_overwrite(map, code_hash, key) ==
    [map |-> [map EXCEPT ![code_hash] = key],
     ret |-> map[code_hash]]

\* add_code_hash returns the owner on file, or records key and returns None
add_code_hash(map, code_hash, key) ==
    IF map[code_hash] # NoKey
    THEN [map |-> map, ret |-> map[code_hash]]
    ELSE [map |-> [map EXCEPT ![code_hash] = key], ret |-> NoKey]

\* update_best without the test of line 111: every result is put
update_best_any(cache, result, ts) ==
    heappush(cache, Entry(result, ts, Len(cache) + 1, 0))

\* update_best: put (quality, time(), result) unless the result is DUPLICATED;
\* err is the RuntimeError raised when the put fails
update_best(cache, result, ts) ==
    IF result.ret_code # "DUPLICATED"
    THEN heappush(cache, Entry(result, ts, Len(cache) + 1, 0))
    ELSE [heap |-> cache, err |-> FALSE]

(***************************************************************************)
(* RedisDatabase.                                                          *)
(***************************************************************************)
\* query catches ValueError only (line 291): the value is None then; any
\* other exception of pickle.loads leaves the call
Redis_query(db, key) ==
    IF ~HasKey(db, key) THEN None
    ELSE IF pickle_loads_error(Get(db, key)) # "none" THEN None
    ELSE pickle_loads(Get(db, key))

Redis_query_raises(db, key) ==
    HasKey(db, key) /\ pickle_loads_error(Get(db, key)) \notin {"none", "ValueError"}

Redis_batch_query(db, keys) ==
    [i \in 1..Len(keys) |->
        IF HasKey(db, keys[i]) /\ pickle_loads_error(Get(db, keys[i])) = "none"
        THEN pickle_loads(Get(db, keys[i])) ELSE None]

Redis_batch_query_raises(db, keys) ==
    \E i \in 1..Len(keys) :
        HasKey(db, keys[i]) /\ pickle_loads_error(Get(db, keys[i])) \notin {"none", "ValueError"}

\* persist dumps the whole hash to the file
Redis_persist(db) == [exists |-> TRUE, data |-> db]

Redis_commit_impl(db, key, result) ==
    LET db2 == Set(db, key, pickle_dumps(Obj(result)))
    IN  [database |-> db2, file |-> Redis_persist(db2), ok |-> TRUE]

\* {key: pickle.dumps(result) for key, result in pairs}: one item per key
RECURSIVE Redis_dict(_)
Redis_dict(pairs) ==
    IF pairs = <<>> THEN <<>>
    ELSE LET d == Redis_dict(SubSeq(pairs, 1, Len(pairs) - 1))
             p == pairs[Len(pairs)]
         IN  Set(d, p.key, pickle_dumps(Obj(p.val)))

\* hmset refuses an empty mapping (redis.DataError): err
Redis_batch_commit_impl(db, f, pairs) ==
    LET data == Redis_dict(pairs)
        db2 == SetAll(db, data)
    IN  IF data = <<>>
        THEN [database |-> db, file |-> f, n |-> 0, err |-> TRUE]
        ELSE [database |-> db2, file |-> Redis_persist(db2), n |-> Len(data), err |-> FALSE]

(***************************************************************************)
(* PickleDatabase.                                                         *)
(***************************************************************************)
\* PickleDB.get: the value, or False for a missing key
Pickle_get(db, key) == IF HasKey(db, key) THEN Get(db, key) ELSE Obj(PyFalse)

Pickle_query(db, key) ==
    LET value == Pickle_get(db, key)
    IN  IF IsBoolObj(value) THEN None ELSE value

Pickle_batch_query(db, keys) ==
    [i \in 1..Len(keys) |-> Pickle_query(db, keys[i])]

Pickle_commit_impl(db, f, key, result) ==
    [database |-> Set(db, key, Obj(result)), file |-> f, ok |-> TRUE]

Pickle_batch_commit_impl(db, f, pairs) ==
    [database |-> SetAll(db, [i \in 1..Len(pairs) |-> [key |-> pairs[i].key, val |-> Obj(pairs[i].val)]]),
     file |-> f, n |-> Len(pairs), err |-> FALSE]

\* persist: every value is replaced by its jsonpickle encoding, then dumped
Pickle_persist(db) ==
    LET db2 == [i \in 1..Len(db) |-> [key |-> db[i].key, val |-> jsonpickle_encode(db[i].val)]]
    IN  [database |-> db2, file |-> [exists |-> TRUE, data |-> db2]]

(***************************************************************************)
(* The methods the adapters implement, by class.                           *)
(***************************************************************************)
query(b, db, key) == IF b = "Redis" THEN Redis_query(db, key) ELSE Pickle_query(db, key)

batch_query(b, db, keys) ==
    IF keys = <<>> THEN <<>>
    ELSE IF b = "Redis" THEN Redis_batch_query(db, keys) ELSE Pickle_batch_query(db, keys)

\* whether the call ends in an exception instead of a value
query_raises(b, db, key) == b = "Redis" /\ Redis_query_raises(db, key)

batch_query_raises(b, db, keys) == b = "Redis" /\ Redis_batch_query_raises(db, keys)

query_keys(b, db) == KeysOf(db)

count(b, db) == Len(db)

IsNotNone(x) == x # None

query_all(b, db) == SelectSeq(batch_query(b, db, query_keys(b, db)), IsNotNone)

query_all_raises(b, db) == batch_query_raises(b, db, query_keys(b, db))

commit_impl(S, key, result) ==
    IF S.backend = "Redis" THEN Redis_commit_impl(S.database, key, result)
    ELSE Pickle_commit_impl(S.database, S.file, key, result)

batch_commit_impl(S, pairs) ==
    IF S.backend = "Redis" THEN Redis_batch_commit_impl(S.database, S.file, pairs)
    ELSE Pickle_batch_commit_impl(S.database, S.file, pairs)

(***************************************************************************)
(* Database: commit, batch_commit and the rebuild of the indices.          *)
(***************************************************************************)
\* commit without lines 131-132: the result is written but never put
commit_no_update(S, key, result, ts) ==
    LET w == commit_impl(S, key, result)
    IN  [S EXCEPT !.database = w.database, !.file = w.file,
                  !.status = IF w.ok THEN "running" ELSE "exit1"]

\* commit: exit(1) when commit_impl reports failure, else update_best for a Result
commit(S, key, result, ts) ==
    LET w == commit_impl(S, key, result)
        S2 == [S EXCEPT !.database = w.database, !.file = w.file]
    IN  IF ~w.ok THEN [S2 EXCEPT !.status = "exit1"]
        ELSE IF IsResult(result)
        THEN LET u == update_best(S.best_cache, result, ts)
             IN  [S2 EXCEPT !.best_cache = u.heap,
                            !.status = IF u.err THEN "raised" ELSE "running"]
        ELSE S2

\* for _, result in pairs: if isinstance(result, Result): self.update_best(result)
RECURSIVE update_best_all(_, _, _, _)
update_best_all(cache, pairs, tss, i) ==
    IF i > Len(pairs) THEN [heap |-> cache, err |-> FALSE]
    ELSE IF ~IsResult(pairs[i].val) THEN update_best_all(cache, pairs, tss, i + 1)
    ELSE LET u == update_best(cache, pairs[i].val, tss[i])
         IN  IF u.err THEN u ELSE update_best_all(u.heap, pairs, tss, i + 1)

\* batch_commit: exit(1) unless batch_commit_impl returns len(pairs)
batch_commit(S, pairs, tss) ==
    LET w == batch_commit_impl(S, pairs)
        S2 == [S EXCEPT !.database = w.database, !.file = w.file]
    IN  IF w.err THEN [S2 EXCEPT !.status = "raised"]
        ELSE IF w.n # Len(pairs) THEN [S2 EXCEPT !.status = "exit1"]
        ELSE LET u == update_best_all(S.best_cache, pairs, tss, 1)
             IN  [S2 EXCEPT !.best_cache = u.heap,
                            !.status = IF u.err THEN "raised" ELSE "running"]

IsValidHLS(x) == x.json = 0 /\ ~x.pickled /\ IsHLSResult(x.v) /\ x.v.valid
IsMerlin(x) == x.json = 0 /\ ~x.pickled /\ IsMerlinResult(x.v)

\* the loop of init_best_cache over the valid HLS results; the result
\* objects are the ones query_all deserialized (oid = seq); a put that
\* raises ends the loop
RECURSIVE put_all(_, _, _, _)
put_all(cache, results, tss, i) ==
    IF i > Len(results) THEN [heap |-> cache, err |-> FALSE]
    ELSE IF results[i].v.ret_code = "DUPLICATED" THEN put_all(cache, results, tss, i + 1)
    ELSE LET u == heappush(cache, Entry(results[i].v, tss[i], Len(cache) + 1, Len(cache) + 1))
         IN  IF u.err THEN u ELSE put_all(u.heap, results, tss, i + 1)

init_best_cache(b, db, cache, tss) ==
    IF count(b, db) = 0 THEN [heap |-> cache, err |-> FALSE]
    ELSE IF query_all_raises(b, db) THEN [heap |-> cache, err |-> TRUE]
    ELSE put_all(cache, SelectSeq(query_all(b, db), IsValidHLS), tss, 1)

\* the loop of init_code_hash_map over the Merlin results: each one that
\* carries a hash and is not DUPLICATED is stored under its hash
RECURSIVE store_hashes(_, _, _)
store_hashes(map, results, i) ==
    IF i > Len(results) THEN [map |-> map, err |-> FALSE]
    ELSE LET r == results[i].v
         IN  IF r.code_hash # NoHash /\ r.ret_code # "DUPLICATED"
             THEN IF r.point = NoKey THEN [map |-> map, err |-> TRUE]
                  ELSE store_hashes([map EXCEPT ![r.code_hash] = r.point], results, i + 1)
             ELSE store_hashes(map, results, i + 1)

init_code_hash_map(b, db, map) ==
    IF count(b, db) = 0 THEN [map |-> map, err |-> FALSE]
    ELSE IF query_all_raises(b, db) THEN [map |-> map, err |-> TRUE]
    ELSE store_hashes(map, SelectSeq(query_all(b, db), IsMerlin), 1)

\* the two init_ calls that end load
init_indices(S, tss) ==
    LET c == init_best_cache(S.backend, S.database, S.best_cache, tss)
        m == init_code_hash_map(S.backend, S.database, S.code_hash_map)
    IN  IF c.err THEN [S EXCEPT !.best_cache = c.heap, !.status = "raised"]
        ELSE [S EXCEPT !.best_cache = c.heap, !.code_hash_map = m.map,
                       !.status = IF m.err THEN "raised" ELSE "running"]

\* RedisDatabase.load: the file's dict goes into the hash with hmset
\* (which refuses an empty dict), then the indices are rebuilt
Redis_load(S, tss) ==
    IF S.file.exists
    THEN IF S.file.data = <<>> THEN [S EXCEPT !.status = "raised"]
         ELSE init_indices([S EXCEPT !.database = SetAll(S.database, S.file.data)], tss)
    ELSE init_indices(S, tss)

\* the decoding loop of PickleDatabase.load: jsonpickle.decode raises
\* TypeError on a value that is no str, and the loop ends there
RECURSIVE decode_all(_, _)
decode_all(db, i) ==
    IF i > Len(db) THEN [database |-> db, err |-> FALSE]
    ELSE IF ~jsonpickle_decodable(db[i].val) THEN [database |-> db, err |-> TRUE]
    ELSE decode_all([db EXCEPT ![i].val = jsonpickle_decode(db[i].val)], i + 1)

Pickle_load(S, tss) ==
    LET d == decode_all(S.database, 1)
    IN  IF d.err THEN [S EXCEPT !.database = d.database, !.status = "raised"]
        ELSE init_indices([S EXCEPT !.database = d.database], tss)

load(S, tss) == IF S.backend = "Redis" THEN Redis_load(S, tss) ELSE Pickle_load(S, tss)

persist(S) ==
    IF S.backend = "Redis" THEN [S EXCEPT !.file = Redis_persist(S.database)]
    ELSE LET w == Pickle_persist(S.database)
         IN  [S EXCEPT !.database = w.database, !.file = w.file]

(***************************************************************************)
(* The calls of the caller.                                                *)
(***************************************************************************)
Call(op, key, val, ret, rkey) ==
    [op |-> op, key |-> key, val |-> val, ret |-> ret, rkey |-> rkey, n |-> 0,
     code_hash |-> NoHash]

NoCall == Call("none", NoKey, PyNone, None, NoKey)

Idle == [pc |-> "idle", code_hash |-> NoHash, key |-> NoKey, ret |-> NoKey]
Threads == {"t1", "t2"}

\* what the file at db_file_path can hold when the object is constructed
\* a result is stored under the key of its design point
ValuesFor(key) == {v \in Values : v.point \in {key, NoKey}}
Pairs == {p \in [key : Keys, val : Values] : p.val \in ValuesFor(p.key)}

\* whether update_best puts the value into best_cache
IsPut(v) == IsResult(v) /\ v.ret_code # "DUPLICATED"
\* one time() per put; the other positions are not read
TimesFor(vals) == {tss \in [1..Len(vals) -> Times] : \A i \in 1..Len(vals) : ~IsPut(vals[i]) => tss[i] = 0}
PairLists(n) == UNION {[1..m -> Pairs] : m \in 0..n}
\* the lists batch_commit is called with
BatchValues == {HLS1, MerlinDup, PyTrue}
BatchLists == {ps \in PairLists(MaxBatch) : \A i \in 1..Len(ps) : ps[i].val \in BatchValues}
NoRepeat(ps) == \A i, j \in 1..Len(ps) : i # j => ps[i].key # ps[j].key
Stores == {ps \in PairLists(Cardinality(Keys)) : NoRepeat(ps)}
\* a dump file can also hold bytes that are no pickle of a value
FilePairs == Pairs \cup [key : Keys, val : {BadProtocol, Truncated}]
FileStores == {ps \in UNION {[1..m -> FilePairs] : m \in 0..Cardinality(Keys)} : NoRepeat(ps)}

Pickled(ps) == [i \in 1..Len(ps) |-> [key |-> ps[i].key, val |-> pickle_dumps(Obj(ps[i].val))]]
Encoded(ps) == [i \in 1..Len(ps) |-> [key |-> ps[i].key, val |-> jsonpickle_encode(Obj(ps[i].val))]]

NoFile == [exists |-> FALSE, data |-> <<>>]

\* __init__: empty indices.  A RedisDatabase starts on an empty hash and
\* reads the file in load(); a PickleDatabase holds what pickledb.load
\* read from the file, every value a jsonpickle string.
Init ==
    /\ backend \in {"Redis", "Pickle"}
    /\ \/ /\ backend = "Redis"
          /\ \E ps \in FileStores : file \in {NoFile, [exists |-> TRUE, data |-> Pickled(ps)]}
          /\ database = <<>>
       \/ /\ backend = "Pickle"
          /\ \E ps \in Stores : file \in {NoFile, [exists |-> TRUE, data |-> Encoded(ps)]}
          /\ database = file.data
    /\ best_cache = <<>>
    /\ code_hash_map = [h \in Hashes |-> NoKey]
    /\ status = "running"
    /\ loaded = FALSE
    /\ last = NoCall
    /\ ncalls = 0
    /\ threads = [t \in Threads |-> Idle]
    /\ lock = "free"

\* a call can start: the process runs and the caller has calls left
CanCall == status = "running" /\ ncalls < MaxCalls

Apply(S) ==
    /\ database' = S.database
    /\ file' = S.file
    /\ best_cache' = S.best_cache
    /\ code_hash_map' = S.code_hash_map
    /\ status' = S.status
    /\ ncalls' = ncalls + 1
    /\ UNCHANGED <<backend, threads, lock>>

Load ==
    /\ CanCall
    /\ \E tss \in [1..Cardinality(Keys) -> Times] :
         LET S2 == load(St, tss)
         IN  /\ Apply(S2)
             /\ loaded' = (loaded \/ S2.status = "running")
             /\ last' = Call("load", NoKey, PyNone, None, NoKey)

Commit(key, result) ==
    /\ CanCall
    /\ \E tss \in TimesFor(<<result>>) :
         /\ Apply(commit(St, key, result, tss[1]))
         /\ last' = Call("commit", key, result, None, NoKey)
    /\ UNCHANGED loaded

BatchCommit(pairs) ==
    /\ CanCall
    /\ \E tss \in TimesFor([i \in 1..Len(pairs) |-> pairs[i].val]) :
         /\ Apply(batch_commit(St, pairs, tss))
         /\ last' = [Call("batch_commit", NoKey, PyNone, None, NoKey) EXCEPT !.n = Len(pairs)]
    /\ UNCHANGED loaded

Query(key) ==
    /\ CanCall
    /\ ncalls' = ncalls + 1
    /\ last' = Call("query", key, PyNone, query(backend, database, key), NoKey)
    /\ status' = IF query_raises(backend, database, key) THEN "raised" ELSE status
    /\ UNCHANGED <<backend, database, file, best_cache, code_hash_map, loaded, threads, lock>>

Persist ==
    /\ CanCall
    /\ Apply(persist(St))
    /\ last' = Call("persist", NoKey, PyNone, None, NoKey)
    /\ UNCHANGED loaded

AddCodeHash(code_hash, key) ==
    /\ CanCall
    /\ ncalls' = ncalls + 1
    /\ LET a == add_code_hash(code_hash_map, code_hash, key)
       IN  /\ code_hash_map' = a.map
           /\ last' = [Call("add_code_hash", key, PyNone, None, a.ret) EXCEPT !.code_hash = code_hash]
    /\ UNCHANGED <<backend, database, file, best_cache, status, loaded, threads, lock>>

Next ==
    \/ Load
    \/ \E key \in Keys : \E result \in ValuesFor(key) : Commit(key, result)
    \/ \E pairs \in BatchLists : BatchCommit(pairs)
    \/ \E key \in Keys : Query(key)
    \/ Persist
    \/ \E code_hash \in Hashes, key \in Keys : AddCodeHash(code_hash, key)

Spec == Init /\ [][Next]_vars

(***************************************************************************)
(* ConcSpec: threads in add_code_hash.  The method holds no lock, so the   *)
(* test of line 94 and the store of line 96 are separate steps.            *)
(***************************************************************************)
ConcInit == Init /\ file = NoFile

\* a thread calls add_code_hash(code_hash, key)
AchCall(t, code_hash, key) ==
    /\ CanCall
    /\ threads[t].pc \in {"idle", "done"}
    /\ threads' = [threads EXCEPT ![t] = [pc |-> "test", code_hash |-> code_hash, key |-> key, ret |-> NoKey]]
    /\ ncalls' = ncalls + 1
    /\ UNCHANGED <<backend, database, file, best_cache, code_hash_map, status, loaded, last, lock>>

\* if code_hash in self.code_hash_map: return self.code_hash_map[code_hash]
AchTest(t) ==
    /\ threads[t].pc = "test"
    /\ threads' = [threads EXCEPT ![t] =
         IF code_hash_map[threads[t].code_hash] # NoKey
         THEN [@ EXCEPT !.pc = "done", !.ret = code_hash_map[threads[t].code_hash]]
         ELSE [@ EXCEPT !.pc = "store"]]
    /\ UNCHANGED <<backend, database, file, best_cache, code_hash_map, status, loaded, last, ncalls, lock>>

\* self.code_hash_map[code_hash] = key; return None
AchStore(t) ==
    /\ threads[t].pc = "store"
    /\ code_hash_map' = [code_hash_map EXCEPT ![threads[t].code_hash] = threads[t].key]
    /\ threads' = [threads EXCEPT ![t] = [@ EXCEPT !.pc = "done", !.ret = NoKey]]
    /\ UNCHANGED <<backend, database, file, best_cache, status, loaded, last, ncalls, lock>>

ConcNext ==
    \/ \E t \in Threads, code_hash \in Hashes, key \in Keys : AchCall(t, code_hash, key)
    \/ \E t \in Threads : AchTest(t)
    \/ \E t \in Threads : AchStore(t)

ConcSpec == ConcInit /\ [][ConcNext]_vars

(***************************************************************************)
(* UbSpec: threads in update_best.  The tuple (quality, time(), result) is *)
(* built before PriorityQueue.put takes the mutex of the queue, so the     *)
(* call of time() and the put are separate steps; the put itself runs      *)
(* under the mutex and is one step.  A thread record keeps the result and  *)
(* timestamp of its call, tick (the number of its time() call among all    *)
(* time() calls), seq (the insertion number of its entry) and passed (the  *)
(* results its calls have put).  An exception ends the thread, not the     *)
(* process.                                                                *)
(***************************************************************************)
UbResults == {HLS1, Merlin1, Merlin2, MerlinDup}

UbIdle == [pc |-> "idle", result |-> PyNone, ts |-> 0, tick |-> 0, seq |-> 0, passed |-> <<>>]

UbInit ==
    /\ backend \in {"Redis", "Pickle"}
    /\ database = <<>>
    /\ file = NoFile
    /\ best_cache = <<>>
    /\ code_hash_map = [h \in Hashes |-> NoKey]
    /\ status = "running"
    /\ loaded = FALSE
    /\ last = NoCall
    /\ ncalls = 0
    /\ threads = [t \in Threads |-> UbIdle]
    /\ lock = "free"

LastTick == CHOOSE n \in {threads[t].tick : t \in Threads} : \A t \in Threads : threads[t].tick <= n

\* a thread calls update_best(result)
UbCall(t, result) ==
    /\ CanCall
    /\ threads[t].pc \in {"idle", "done"}
    /\ threads' = [threads EXCEPT ![t] = [@ EXCEPT !.pc = "time", !.result = result, !.ts = 0, !.seq = 0]]
    /\ ncalls' = ncalls + 1
    /\ UNCHANGED <<backend, database, file, best_cache, code_hash_map, status, loaded, last, lock>>

\* the argument of put is evaluated: time() is read (line 113)
UbTime(t) ==
    /\ threads[t].pc = "time"
    /\ \E tss \in TimesFor(<<threads[t].result>>) :
         threads' = [threads EXCEPT ![t] = [@ EXCEPT !.pc = "put", !.ts = tss[1], !.tick = LastTick + 1]]
    /\ UNCHANGED <<backend, database, file, best_cache, code_hash_map, status, loaded, last, ncalls, lock>>

\* self.best_cache.put(...) under the mutex of the queue, unless the
\* result is DUPLICATED (line 111); RuntimeError when the put raises
UbPut(t) ==
    /\ threads[t].pc = "put"
    /\ LET r == threads[t].result
           u == update_best(best_cache, r, threads[t].ts)
       IN  /\ best_cache' = u.heap
           /\ threads' = [threads EXCEPT ![t] =
                [@ EXCEPT !.pc = IF u.err THEN "raised" ELSE "done",
                          !.seq = IF IsPut(r) THEN Len(best_cache) + 1 ELSE 0,
                          !.passed = IF IsPut(r) THEN Append(@, r) ELSE @]]
    /\ UNCHANGED <<backend, database, file, code_hash_map, status, loaded, last, ncalls, lock>>

UbNext ==
    \/ \E t \in Threads, result \in UbResults : UbCall(t, result)
    \/ \E t \in Threads : UbTime(t)
    \/ \E t \in Threads : UbPut(t)

UbSpec == UbInit /\ [][UbNext]_vars

(***************************************************************************)
(* PkSpec: threads on one PickleDatabase.  batch_query holds self.lock     *)
(* from before its first get to after its last one; persist and load walk  *)
(* over the keys and replace one value per iteration without taking the    *)
(* lock.  A thread record keeps the method it is in (op), the keys it      *)
(* walks over, the index i of the next key and, for batch_query, the       *)
(* values read so far.                                                     *)
(***************************************************************************)
PkIdle == [pc |-> "idle", op |-> "none", keys |-> <<>>, i |-> 0, values |-> <<>>]

\* the object is constructed on a dump file: every value a jsonpickle string
PkInit ==
    /\ backend = "Pickle"
    /\ \E ps \in Stores : file = [exists |-> TRUE, data |-> Encoded(ps)]
    /\ database = file.data
    /\ best_cache = <<>>
    /\ code_hash_map = [h \in Hashes |-> NoKey]
    /\ status = "running"
    /\ loaded = FALSE
    /\ last = NoCall
    /\ ncalls = 0
    /\ threads = [t \in Threads |-> PkIdle]
    /\ lock = "free"

\* the position after iteration i of a loop over the keys
PkAfter(th, after) ==
    IF th.i >= Len(th.keys) THEN [th EXCEPT !.pc = after] ELSE [th EXCEPT !.i = @ + 1]

\* a thread calls persist(), load() or batch_query(keys)
PkCall(t, op, keys) ==
    /\ CanCall
    /\ threads[t].pc \in {"idle", "done"}
    /\ op \in {"persist", "load"} => keys = query_keys(backend, database)
    /\ threads' = [threads EXCEPT ![t] =
         [pc |-> IF op = "batch_query" THEN "acquire"
                 ELSE IF keys = <<>> THEN (IF op = "persist" THEN "dump" ELSE "init")
                 ELSE IF op = "persist" THEN "encode" ELSE "decode",
          op |-> op, keys |-> keys, i |-> 1, values |-> <<>>]]
    /\ ncalls' = ncalls + 1
    /\ UNCHANGED <<backend, database, file, best_cache, code_hash_map, status, loaded, last, lock>>

\* persist, one iteration: set(key, jsonpickle.encode(get(key)))
PkEncode(t) ==
    /\ threads[t].pc = "encode"
    /\ LET key == threads[t].keys[threads[t].i]
       IN  database' = Set(database, key, jsonpickle_encode(Pickle_get(database, key)))
    /\ threads' = [threads EXCEPT ![t] = PkAfter(@, "dump")]
    /\ UNCHANGED <<backend, file, best_cache, code_hash_map, status, loaded, last, ncalls, lock>>

\* persist: return self.database.dump()
PkDump(t) ==
    /\ threads[t].pc = "dump"
    /\ file' = [exists |-> TRUE, data |-> database]
    /\ threads' = [threads EXCEPT ![t] = [@ EXCEPT !.pc = "done"]]
    /\ UNCHANGED <<backend, database, best_cache, code_hash_map, status, loaded, last, ncalls, lock>>

\* load, one iteration: set(key, jsonpickle.decode(get(key))); TypeError
\* (not caught at line 388) when the value is no str
PkDecode(t) ==
    /\ threads[t].pc = "decode"
    /\ LET key == threads[t].keys[threads[t].i]
           value == Pickle_get(database, key)
       IN  IF jsonpickle_decodable(value)
           THEN /\ database' = Set(database, key, jsonpickle_decode(value))
                /\ threads' = [threads EXCEPT ![t] = PkAfter(@, "init")]
           ELSE /\ database' = database
                /\ threads' = [threads EXCEPT ![t] = [@ EXCEPT !.pc = "raised"]]
    /\ UNCHANGED <<backend, file, best_cache, code_hash_map, status, loaded, last, ncalls, lock>>

\* load: init_best_cache() and init_code_hash_map(), whose batch_query
\* takes the lock
PkInitIndices(t) ==
    /\ threads[t].pc = "init"
    /\ lock = "free"
    /\ \E tss \in [1..Cardinality(Keys) -> Times] :
         LET S2 == init_indices(St, tss)
         IN  /\ best_cache' = S2.best_cache
             /\ code_hash_map' = S2.code_hash_map
             /\ loaded' = (loaded \/ S2.status = "running")
             /\ threads' = [threads EXCEPT ![t] =
                  [@ EXCEPT !.pc = IF S2.status = "running" THEN "done" ELSE "raised"]]
    /\ UNCHANGED <<backend, database, file, status, last, ncalls, lock>>

\* batch_query: self.lock.acquire()
PkAcquire(t) ==
    /\ threads[t].pc = "acquire"
    /\ lock = "free"
    /\ lock' = t
    /\ threads' = [threads EXCEPT ![t] = [@ EXCEPT !.pc = "get"]]
    /\ UNCHANGED <<backend, database, file, best_cache, code_hash_map, status, loaded, last, ncalls>>

\* batch_query, one iteration: values.append(None if isinstance(value, bool) else value)
PkGet(t) ==
    /\ threads[t].pc = "get"
    /\ threads' = [threads EXCEPT ![t] =
         PkAfter([@ EXCEPT !.values = Append(@, Pickle_query(database, threads[t].keys[threads[t].i]))],
                 "release")]
    /\ UNCHANGED <<backend, database, file, best_cache, code_hash_map, status, loaded, last, ncalls, lock>>

\* batch_query: self.lock.release(); return values
PkRelease(t) ==
    /\ threads[t].pc = "release"
    /\ lock' = "free"
    /\ threads' = [threads EXCEPT ![t] = [@ EXCEPT !.pc = "done"]]
    /\ UNCHANGED <<backend, database, file, best_cache, code_hash_map, status, loaded, last, ncalls>>

PkKeyLists == UNION {[1..m -> Keys] : m \in 1..MaxBatch}

PkNext ==
    \/ \E t \in Threads : PkCall(t, "persist", query_keys(backend, database))
    \/ \E t \in Threads : PkCall(t, "load", query_keys(backend, database))
    \/ \E t \in Threads, keys \in PkKeyLists : PkCall(t, "batch_query", keys)
    \/ \E t \in Threads : PkEncode(t)
    \/ \E t \in Threads : PkDump(t)
    \/ \E t \in Threads : PkDecode(t)
    \/ \E t \in Threads : PkInitIndices(t)
    \/ \E t \in Threads : PkAcquire(t)
    \/ \E t \in Threads : PkGet(t)
    \/ \E t \in Threads : PkRelease(t)

PkSpec == PkInit /\ [][PkNext]_vars

(***************************************************************************)
(* RdSpec: threads in RedisDatabase.commit_impl.  hset is one command of   *)
(* the server; persist then reads the hash into dump_db and writes dump_db *)
(* to the file, and nothing orders these steps between threads.  A thread  *)
(* record keeps the key and result of its call and its dump_db.            *)
(***************************************************************************)
RdIdle == [pc |-> "idle", key |-> NoKey, result |-> PyNone, dump_db |-> <<>>]

RdInit ==
    /\ backend = "Redis"
    /\ database = <<>>
    /\ file = NoFile
    /\ best_cache = <<>>
    /\ code_hash_map = [h \in Hashes |-> NoKey]
    /\ status = "running"
    /\ loaded = FALSE
    /\ last = NoCall
    /\ ncalls = 0
    /\ threads = [t \in Threads |-> RdIdle]
    /\ lock = "free"

\* a thread calls commit_impl(key, result)
RdCall(t, key, result) ==
    /\ CanCall
    /\ threads[t].pc \in {"idle", "done"}
    /\ threads' = [threads EXCEPT ![t] = [pc |-> "hset", key |-> key, result |-> result, dump_db |-> <<>>]]
    /\ ncalls' = ncalls + 1
    /\ UNCHANGED <<backend, database, file, best_cache, code_hash_map, status, loaded, last, lock>>

\* self.database.hset(self.db_id, key, pickle.dumps(result))
RdHset(t) ==
    /\ threads[t].pc = "hset"
    /\ database' = Set(database, threads[t].key, pickle_dumps(Obj(threads[t].result)))
    /\ threads' = [threads EXCEPT ![t] = [@ EXCEPT !.pc = "read"]]
    /\ UNCHANGED <<backend, file, best_cache, code_hash_map, status, loaded, last, ncalls, lock>>

\* persist: dump_db = {key: hget(key) for key in hgetall()}
RdRead(t) ==
    /\ threads[t].pc = "read"
    /\ threads' = [threads EXCEPT ![t] = [@ EXCEPT !.pc = "write", !.dump_db = Redis_persist(database).data]]
    /\ UNCHANGED <<backend, database, file, best_cache, code_hash_map, status, loaded, last, ncalls, lock>>

\* persist: pickle.dump(dump_db, filep); commit_impl returns True
RdWrite(t) ==
    /\ threads[t].pc = "write"
    /\ file' = [exists |-> TRUE, data |-> threads[t].dump_db]
    /\ threads' = [threads EXCEPT ![t] = [@ EXCEPT !.pc = "done"]]
    /\ UNCHANGED <<backend, database, best_cache, code_hash_map, status, loaded, last, ncalls, lock>>

RdNext ==
    \/ \E t \in Threads, key \in Keys : \E result \in ValuesFor(key) : RdCall(t, key, result)
    \/ \E t \in Threads : RdHset(t)
    \/ \E t \in Threads : RdRead(t)
    \/ \E t \in Threads : RdWrite(t)

RdSpec == RdInit /\ [][RdNext]_vars

(***************************************************************************)
(* Properties.                                                             *)
(***************************************************************************)
Running == status = "running"
QueryNow(key) == query(backend, database, key)
QueryNext(key) == query(backend, database', key)
EmptyMap == [h \in Hashes |-> NoKey]
\* the step is a call of method op (every call counts in ncalls and sets last)
Called(op) == ncalls' = ncalls + 1 /\ last'.op = op

\* C1: write visibility.  Once commit(k, r) has returned, query(k) returns
\* a value equal to r, in either adapter and for every committed value r.
C1_WriteVisibility ==
    (last.op = "commit" /\ Running) => QueryNow(last.key) = Obj(last.val)

\* C2: first writer wins.  A call add_code_hash(h, k) on an index without
\* h returns None and records h -> k; on an index with h it returns the
\* recorded owner and changes nothing, so the owner of a hash never
\* changes across add_code_hash calls.
C2_FirstWriterWins ==
    [][Called("add_code_hash") =>
         LET h == last'.code_hash
             k == last'.key
         IN  IF code_hash_map[h] = NoKey
             THEN last'.rkey = NoKey /\ code_hash_map' = [code_hash_map EXCEPT ![h] = k]
             ELSE last'.rkey = code_hash_map[h] /\ code_hash_map' = code_hash_map]_vars

\* two add_code_hash calls with different keys: the second returned the first's key
C2_Witness ==
    /\ last.op = "add_code_hash"
    /\ ~loaded
    /\ last.rkey # NoKey
    /\ last.rkey # last.key
    /\ \E h \in Hashes : code_hash_map[h] = last.rkey

\* the entries all come from update_best calls, each for another result
FromUpdateBest(cache) ==
    /\ \A i \in 1..Len(cache) : cache[i].oid = 0
    /\ \A i, j \in 1..Len(cache) : i # j => cache[i].result # cache[j].result

\* C3: drain order.  After any sequence of update_best calls, popping
\* best_cache until it is empty yields non-decreasing qualities, and of
\* two entries of equal quality the one inserted earlier comes first.
C3_DrainOrder ==
    (Running /\ FromUpdateBest(best_cache)) =>
        LET d == Drain(best_cache)
        IN  /\ ~d.err
            /\ Len(d.out) = Len(best_cache)
            /\ \A i, j \in 1..Len(d.out) :
                 i < j => /\ d.out[i].quality <= d.out[j].quality
                          /\ d.out[i].quality = d.out[j].quality => d.out[i].seq < d.out[j].seq

\* the stored results a hash entry can have been rebuilt from
HashSources(db, h, owner) ==
    {i \in 1..Len(db) :
        LET x == query(backend, db, db[i].key)
        IN  /\ IsMerlin(x) /\ x.v.code_hash = h /\ x.v.point = owner
            /\ x.v.ret_code # "DUPLICATED"}

\* C4: duplicated exclusion.  Over load, commit, batch_commit and
\* add_code_hash: a DUPLICATED result committed under k is what query(k)
\* returns; no entry of best_cache holds a DUPLICATED result; commit and
\* batch_commit record nothing in code_hash_map, and every entry load
\* records comes from a stored result that is not DUPLICATED.
C4_DuplicatedExclusion ==
    [][/\ \A i \in 1..Len(best_cache') : best_cache'[i].result.ret_code # "DUPLICATED"
       /\ (Called("commit") /\ last'.val.ret_code = "DUPLICATED" /\ status' = "running")
               => QueryNext(last'.key) = Obj(last'.val)
       /\ (Called("commit") \/ Called("batch_commit"))
               => code_hash_map' = code_hash_map
       /\ Called("load") => \A h \in Hashes :
                    code_hash_map'[h] # code_hash_map[h]
                      => HashSources(database', h, code_hash_map'[h]) # {}]_vars

\* a DUPLICATED result was committed after a load that filled both indices
C4_Witness ==
    /\ last.op = "commit" /\ last.val = MerlinDup /\ Running /\ loaded
    /\ QueryNow(last.key) = Obj(MerlinDup)
    /\ best_cache # <<>>
    /\ code_hash_map[MerlinDup.code_hash] # NoKey

\* the store a fresh object of class b is in after commit(key, result) for
\* each stored pair of db, in order
RECURSIVE Replay(_, _, _)
Replay(b, db, i) ==
    IF i = 0
    THEN [backend |-> b, database |-> <<>>, file |-> NoFile, best_cache |-> <<>>,
          code_hash_map |-> EmptyMap, status |-> "running"]
    ELSE commit(Replay(b, db, i - 1), db[i].key, query(b, db, db[i].key).v, i)

ResultsIn(cache) == {cache[i].result : i \in 1..Len(cache)}

\* every stored value is a result that is not DUPLICATED and carries a hash
AllHashed(b, db) ==
    /\ db # <<>>
    /\ \A i \in 1..Len(db) :
         LET x == query(b, db, db[i].key)
         IN  IsResultObj(x) /\ x.v.ret_code # "DUPLICATED" /\ x.v.code_hash # NoHash

\* C5: rebuild equivalence.  When load() is the first call on a store of
\* N results, none DUPLICATED and all with hashes, the results in
\* best_cache and the code_hash_map are the ones N commits in persisted
\* order give.
C5_RebuildEquivalence ==
    [][(Called("load") /\ ncalls = 0 /\ status' = "running" /\ AllHashed(backend, database'))
         => LET R == Replay(backend, database', Len(database'))
            IN  /\ ResultsIn(best_cache') = ResultsIn(R.best_cache)
                /\ code_hash_map' = R.code_hash_map]_vars

NumPut(pairs) == Cardinality({i \in 1..Len(pairs) : IsPut(pairs[i].val)})

\* C7: batch_commit on success.  The backend writes of the adapters always
\* succeed, so for every list of pairs, also one that repeats a key,
\* batch_commit does not exit, every key of the list can be queried
\* afterwards, and best_cache gains one entry per result that is not
\* DUPLICATED.
C7_BatchCommitSuccess ==
    [][\A pairs \in BatchLists :
         (BatchCommit(pairs) /\ \A i \in 1..Len(pairs) : IsResult(pairs[i].val)) =>
           /\ status' # "exit1"
           /\ status' = "running" =>
                /\ \A i \in 1..Len(pairs) : QueryNext(pairs[i].key) # None
                /\ Len(best_cache') = Len(best_cache) + NumPut(pairs)]_vars

\* C8: atomic check-and-set.  Of the add_code_hash calls of two threads
\* on one hash with different keys, at most one returns None: they never
\* both report the hash as new.
C8_AtomicCheckAndSet ==
    \A t1, t2 \in Threads :
        (/\ t1 # t2
         /\ threads[t1].pc = "done" /\ threads[t2].pc = "done"
         /\ threads[t1].code_hash = threads[t2].code_hash
         /\ threads[t1].key # threads[t2].key)
            => ~(threads[t1].ret = NoKey /\ threads[t2].ret = NoKey)

\* C9: committed results stay retrievable.  After the commit of a result,
\* persist() and query() leave the value query(k) returns unchanged for
\* every key k, so that query of the committed key still returns the result.
C9_StaysRetrievable ==
    [][((Called("persist") \/ Called("query")) /\ last.op = "commit" /\ IsResult(last.val))
         => /\ \A k \in Keys : QueryNext(k) = QueryNow(k)
            /\ QueryNext(last.key) = Obj(last.val)]_vars

\* C10: load before commit.  In every state where a commit or batch_commit
\* has taken effect, load() has already returned.
C10_LoadBeforeCommit ==
    ((last.op = "commit" /\ IsResult(last.val)) \/ (last.op = "batch_commit" /\ last.n > 0))
        => loaded

\* the positions of db whose value query_all returns as a result that is
\* not DUPLICATED
StoredResults(b, db) ==
    {i \in 1..Len(db) :
        LET x == query(b, db, db[i].key)
        IN  IsResultObj(x) /\ x.v.ret_code # "DUPLICATED"}

\* C11: load exactness.  When load() is the first call and returns,
\* best_cache holds exactly one entry for every stored result that is not
\* DUPLICATED (every result carries a quality) and no other entry, and
\* code_hash_map has an entry for exactly the hashes that stored results
\* which are not DUPLICATED carry.
C11_LoadExactness ==
    [][(Called("load") /\ ncalls = 0 /\ status' = "running") =>
         LET S == StoredResults(backend, database')
             val(i) == query(backend, database', database'[i].key).v
         IN  /\ \A i \in S :
                  Cardinality({j \in 1..Len(best_cache') : best_cache'[j].result = val(i)}) = 1
             /\ \A j \in 1..Len(best_cache') : \E i \in S : best_cache'[j].result = val(i)
             /\ \A h \in Hashes :
                  code_hash_map'[h] # NoKey <=> \E i \in S : val(i).code_hash = h]_vars

\* C12: commit feeds the code-hash index.  A successful commit of a result
\* that is not DUPLICATED and carries a hash code_hash_map does not have
\* records the hash against the committed key.  So after commit(p1, r1)
\* and commit(p2, r2) with r1 (quality 5) and r2 (quality 3) of the same
\* hash, add_code_hash(hash, p2) returns p1 and best_cache drains r2
\* before r1.
C12_CommitFeedsHashIndex ==
    [][/\ (Called("commit") /\ status' = "running" /\ IsPut(last'.val)
             /\ last'.val.code_hash # NoHash /\ code_hash_map[last'.val.code_hash] = NoKey)
            => code_hash_map'[last'.val.code_hash] = last'.key
       /\ (Called("add_code_hash") /\ ncalls = 2
             /\ last.op = "commit" /\ last.key = "p2" /\ last.val = Merlin2
             /\ QueryNow("p1") = Obj(Merlin1) /\ ResultsIn(best_cache) = {Merlin1, Merlin2}
             /\ last'.key = "p2" /\ last'.code_hash = Merlin2.code_hash)
            => /\ last'.rkey = "p1"
               /\ [i \in 1..2 |-> Drain(best_cache).out[i].result] = <<Merlin2, Merlin1>>]_vars

\* the lists of keys batch_query is asked for
KeyLists == UNION {[1..m -> Keys] : m \in 0..MaxBatch}

\* what the claim has query(key) return: the stored value, None for an
\* absent key and for a value that cannot be deserialized
Stored(b, db, key) ==
    IF ~HasKey(db, key) THEN None
    ELSE IF b = "Redis"
         THEN IF pickle_loads_error(Get(db, key)) = "none" THEN pickle_loads(Get(db, key)) ELSE None
         ELSE Get(db, key)

\* C13: queries are non-fatal and positional.  For every list of keys,
\* batch_query returns without an exception a list of the same length
\* whose i-th element is what query(keys[i]) returns, which is the stored
\* value (a stored bool aside), or None when the key is absent or its
\* value cannot be deserialized; query_all returns the elements of
\* batch_query over all stored keys that are not None.
C13_QueriesNonFatal ==
    /\ \A keys \in KeyLists :
         LET values == batch_query(backend, database, keys)
         IN  /\ ~batch_query_raises(backend, database, keys)
             /\ Len(values) = Len(keys)
             /\ \A i \in 1..Len(keys) :
                  /\ ~query_raises(backend, database, keys[i])
                  /\ values[i] = query(backend, database, keys[i])
                  /\ ~IsBoolObj(Stored(backend, database, keys[i]))
                       => values[i] = Stored(backend, database, keys[i])
    /\ ~query_all_raises(backend, database)
    /\ LET all == batch_query(backend, database, query_keys(backend, database))
       IN  query_all(backend, database) = SelectSeq(all, IsNotNone)

\* the positions, in the order query_keys returns the keys, of the stored
\* results that are not DUPLICATED and carry hash h
Carriers(b, db, h) == {i \in StoredResults(b, db) : query(b, db, db[i].key).v.code_hash = h}

Min(S) == CHOOSE i \in S : \A j \in S : i <= j

\* C14: the rebuild of the hash index is first-occurrence-wins.  When
\* load() fills an empty code_hash_map and stored results that are not
\* DUPLICATED carry hash h, the key recorded for h is the key of the first
\* of them in the order the backend returns them.
C14_RebuildFirstOccurrence ==
    [][(Called("load") /\ code_hash_map = EmptyMap /\ status' = "running") =>
         \A h \in Hashes :
            LET S == Carriers(backend, database', h)
            IN  S # {} => code_hash_map'[h] =
                            query(backend, database', database'[Min(S)].key).v.point]_vars

\* C15: strictly increasing tie-break timestamps.  Of two entries of
\* best_cache the one put later (by update_best or init_best_cache) carries
\* the strictly greater timestamp, so no two entries share (quality,
\* timestamp) and the queue never compares two results.
C15_StrictTimestamps ==
    \A i, j \in 1..Len(best_cache) :
        /\ best_cache[i].seq < best_cache[j].seq => best_cache[i].ts < best_cache[j].ts
        /\ i # j => TupleLt(best_cache[i], best_cache[j]) # "E"

\* no thread is inside a call
Quiet == \A t \in Threads : threads[t].pc \in {"idle", "done", "raised"}

\* the number of calls update_best(r) that were to put r
NumPassed(r) ==
    Cardinality({c \in Threads \X (1..MaxCalls) :
                    c[2] <= Len(threads[c[1]].passed) /\ threads[c[1]].passed[c[2]] = r})

NumEntries(cache, r) == Cardinality({i \in 1..Len(cache) : cache[i].result = r})

\* C16: no lost inserts, append-only cache.  For any interleaving of
\* update_best calls, once no call is running best_cache holds one entry
\* per call with a result that is not DUPLICATED and no other entry; no
\* step removes or replaces an entry.
C16_NoLostInserts ==
    [][/\ Quiet' => /\ \A r \in UbResults : NumEntries(best_cache', r) = NumPassed(r)'
                    /\ \A i \in 1..Len(best_cache') : best_cache'[i].result \in UbResults
       /\ Len(best_cache') >= Len(best_cache)
       /\ \A i \in 1..Len(best_cache) : \E j \in 1..Len(best_cache') : best_cache'[j] = best_cache[i]]_vars

\* two threads have put entries; the one that read time() first put second,
\* and a DUPLICATED result was passed as well
C16_Witness ==
    /\ Quiet
    /\ threads["t1"].seq > threads["t2"].seq /\ threads["t2"].seq > 0
    /\ threads["t1"].tick < threads["t2"].tick
    /\ Len(best_cache) = 2
    /\ ncalls = 3

\* C17: timestamp order matches lock order.  Of two update_best calls of
\* different threads whose time() calls returned increasing values, the
\* call with the smaller timestamp is the one whose entry was pushed
\* first: no entry pushed later carries an earlier timestamp.
C17_TimestampLockOrder ==
    \A t1, t2 \in Threads :
        (/\ threads[t1].seq > 0 /\ threads[t2].seq > 0
         /\ threads[t1].tick < threads[t2].tick
         /\ threads[t1].ts < threads[t2].ts)
            => threads[t1].seq < threads[t2].seq

\* of the values read for different keys some are results, others
\* serialized strings
Mixed(keys, values) ==
    \E i, j \in 1..Len(values) :
        /\ keys[i] # keys[j]
        /\ values[i] # None /\ values[j] # None
        /\ values[i].json = 0 /\ values[j].json > 0

\* C18: mutual exclusion in the local-file adapter.  persist and load
\* replace the values of the store under the lock batch_query holds, so no
\* batch_query returns a list in which some values are decoded results
\* and others serialized strings; and the lock is free when no call runs.
C18_PickleMutualExclusion ==
    /\ \A t \in Threads :
         (threads[t].op = "batch_query" /\ threads[t].pc = "done") => ~Mixed(threads[t].keys, threads[t].values)
    /\ Quiet => lock = "free"

\* C19: durable dump under concurrent commits.  Once the commits of
\* results by the threads, to different keys, have all returned, the dump
\* file holds every committed key with its committed value.
C19_DurableDump ==
    ((\A t \in Threads : threads[t].pc = "done" /\ IsResult(threads[t].result))
       /\ \A t1, t2 \in Threads : t1 # t2 => threads[t1].key # threads[t2].key)
        => \A t \in Threads :
             /\ file.exists
             /\ HasKey(file.data, threads[t].key)
             /\ Get(file.data, threads[t].key) = pickle_dumps(Obj(threads[t].result))

\* C20: overwrite of a key.  When commit(k, r2) returns right after
\* commit(k, r1), neither result DUPLICATED, query(k) returns r2,
\* best_cache holds an entry for r1 and another for r2, and count() is
\* still the number of distinct keys committed.
C20_KeyOverwrite ==
    [][(Called("commit") /\ last.op = "commit" /\ last'.key = last.key
          /\ IsPut(last.val) /\ IsPut(last'.val) /\ status' = "running") =>
         /\ QueryNext(last'.key) = Obj(last'.val)
         /\ \E i, j \in 1..Len(best_cache') :
              /\ i # j
              /\ best_cache'[i].result = last.val
              /\ best_cache'[j].result = last'.val
         /\ count(backend, database') = count(backend, database)
         /\ count(backend, database') = Cardinality({database'[i].key : i \in 1..Len(database')})]_vars

\* two results were committed under one key of a fresh store: best_cache
\* holds the first one, which no key returns any more
C20_Witness ==
    /\ last.op = "commit" /\ Running /\ IsPut(last.val) /\ ncalls = 2
    /\ QueryNow(last.key) = Obj(last.val)
    /\ count(backend, database) = 1
    /\ Len(best_cache) = 2
    /\ \E i \in 1..Len(best_cache) :
         /\ best_cache[i].result # last.val
         /\ \A k \in Keys : QueryNow(k) # Obj(best_cache[i].result)

====
